---- MODULE Spec2Model ----
(***************************************************************************)
(* Model of the credential cache (getCrumb) and the request forwarder      *)
(* (yfRequest) of server.js.                                               *)
(*                                                                         *)
(* Node runs each callback to completion; the only places where another    *)
(* request's code can run are the three awaited network calls.  A step of  *)
(* the model is therefore the code between two such awaits.  A string is a *)
(* sequence of one-character strings, so that includes(), split(), join()  *)
(* and encodeURIComponent() are computed and not assumed.                  *)
(***************************************************************************)
EXTENDS Integers, Sequences, FiniteSets, TLC

VARIABLES
    _crumb,      \* server.js:31  the cached token, or Null
    _cookies,    \* server.js:32  the cached cookie header, or Null
    _crumbTime,  \* server.js:33  Date.now() of the last token write
    now,         \* Date.now()
    rq,          \* per request slot: the call running in it (see Idle)
    cookiesBy,   \* history: the slot whose acquisition cycle, still in flight,
                 \*          wrote _cookies ("none": no cycle in flight did)
    paired,      \* history: _crumb and _cookies were written by the same
                 \*          acquisition cycle
    calls        \* number of calls started

vars == << _crumb, _cookies, _crumbTime, now, rq, cookiesBy, paired, calls >>

shared == << _crumb, _cookies, _crumbTime >>

-----------------------------------------------------------------------------
(* Bounds of the model *)

MaxCalls == 2
MaxTicks == 2

Procs == {"p1", "p2"}

-----------------------------------------------------------------------------
(* Values *)

\* JS null: distinct from every string (a string is a sequence of characters)
Null == << "null" >>

CRUMB_TTL == 60 * 60 * 1000

\* Date.now() at process start: far more than CRUMB_TTL past _crumbTime = 0
StartTime == 2 * CRUMB_TTL

\* the clock moves in steps of half the TTL: a token is fresh at one step of
\* age and exactly CRUMB_TTL old at two
TickStep == CRUMB_TTL \div 2

\* bodies the token endpoint may answer with (the empty body included)
TokenBodies == { << >>, <<"a">>, <<"a", "/">> }

\* r1.headers['set-cookie']: missing, or a list of Set-Cookie lines
SetCookieHeaders ==
    { Null,
      << <<"A", "=", "1">>, <<"B", "=", "2", ";", " ", "P">> >> }

\* arguments of yfRequest: without and with a query string
TargetUrls == { <<"u">>, <<"u", "?", "q">> }

\* res.data of a 2xx answer
DataBodies == {"d1", "d2"}

\* rejections of axios.get
NoErr == "none"
AuthErrors == {"HTTP401", "HTTP403"}
OtherErrors == {"HTTP500", "ETIMEDOUT"}
AcquireErrors == {"HTTP403", "ETIMEDOUT"}

\* err.response?.status (0: no response, the optional chain gives undefined)
Status(e) ==
    CASE e = "HTTP401" -> 401
      [] e = "HTTP403" -> 403
      [] e = "HTTP500" -> 500
      [] OTHER -> 0

NoPair == [crumb |-> Null, cookies |-> Null]
NoReq == [url |-> << >>, cookie |-> Null]
NoResp == [status |-> 0, body |-> <<"none">>]

-----------------------------------------------------------------------------
(* String functions *)

RECURSIVE Flatten(_)
Flatten(ss) == IF ss = << >> THEN << >> ELSE Head(ss) \o Flatten(Tail(ss))

\* String.prototype.includes for a one-character needle
Includes(s, c) == \E i \in 1..Len(s) : s[i] = c

\* c.split(';')[0]
RECURSIVE FirstSegment(_)
FirstSegment(s) ==
    IF s = << >> \/ Head(s) = ";" THEN << >>
    ELSE << Head(s) >> \o FirstSegment(Tail(s))

\* list.join('; ')
RECURSIVE Join(_)
Join(ss) ==
    IF ss = << >> THEN << >>
    ELSE IF Len(ss) = 1 THEN Head(ss)
    ELSE Head(ss) \o <<";", " ">> \o Join(Tail(ss))

\* (r1.headers['set-cookie'] || []).map(c => c.split(';')[0]).join('; ')
HarvestCookies(h) ==
    LET rawCookies == IF h = Null THEN << >> ELSE h
    IN  Join([i \in 1..Len(rawCookies) |-> FirstSegment(rawCookies[i])])

\* encodeURIComponent on the characters of the model's alphabet
EncodeChar(c) ==
    CASE c = "/" -> <<"%", "2", "F">>
      [] c = "?" -> <<"%", "3", "F">>
      [] c = "=" -> <<"%", "3", "D">>
      [] c = "&" -> <<"%", "2", "6">>
      [] OTHER -> << c >>

encodeURIComponent(s) == Flatten([i \in 1..Len(s) |-> EncodeChar(s[i])])


\* A request slot.  pc is the await the call is suspended at; the other
\* fields are the call's locals, and history of what it did:
\*   op         "yfRequest", or "getCrumb" for a call of getCrumb on its own
\*   url        the argument of yfRequest
\*   site       the getCrumb call it is in or past: "first" (line 79) or
\*              "retry" (line 95)
\*   creds      the pair its last finished getCrumb returned
\*   tokCookie  the Cookie header of its pending token GET
\*   req        the data request in flight
\*   outcome    "none", "ok" (resolved) or "err" (rejected)
\*   data, err  the value resolved with, the error rejected with
\*   resp       the HTTP response the route handler has sent to its client
\*   gate       history: what its running or last getCrumb found at line 39:
\*              "fresh", or why not: "absent" (null), "empty" (the token
\*              is '') or "expired" (a token CRUMB_TTL old or older)
\*   got        history: the last answer the call received from the network,
\*              tagged with its kind: <<"cookies", h>>, <<"token", body>>,
\*              <<"data", d>> or <<"err", e>>
\*   log        history: what the call did, in order
\*   changed    history: its getCrumb call, while it runs, has changed a field
\*              of the store
\*   acqAt      history: Date.now() when its own cycle stored the token
\*              (0: it stored none, or another call wrote the token since)
Idle ==
    [pc |-> "idle", op |-> "none", url |-> << >>, site |-> "first",
     creds |-> NoPair, tokCookie |-> Null, req |-> NoReq, outcome |-> "none",
     data |-> "none", err |-> NoErr, got |-> <<"none">>, log |-> << >>,
     changed |-> FALSE, acqAt |-> 0, gate |-> "none", resp |-> NoResp]

-----------------------------------------------------------------------------
(* The code between awaits *)

\* JS truthiness of a string-or-null value: null and '' are falsy
Truthy(v) == v # Null /\ v # << >>

\* the gate with a TTL of one minute (60 * 1000, a factor of 60 forgotten)
FreshOneMinute(crumb, crumbTime, t) == Truthy(crumb) /\ t - crumbTime < 60 * 1000

\* the gate with <= for <
FreshInclusive(crumb, crumbTime, t) == Truthy(crumb) /\ t - crumbTime <= CRUMB_TTL

\* line 39: _crumb && Date.now() - _crumbTime < CRUMB_TTL
Fresh(crumb, crumbTime, t) == Truthy(crumb) /\ t - crumbTime < CRUMB_TTL

\* the catch block retrying whenever the server answered at all
\* (if (err.response) for the test of the status)
IsAnyHttpError(e) == Status(e) # 0

\* the catch block recovering from 401 only
Is401Only(e) == Status(e) = 401

\* the catch block taking every failure of the first request for a rejection
IsAnyFailure(e) == e # NoErr

\* line 93: err.response?.status === 401 || err.response?.status === 403
IsAuthRejection(e) == Status(e) = 401 \/ Status(e) = 403

\* the separator chosen without looking at the url
SepAlwaysQuery(u) == <<"?">>

\* line 80: url.includes('?') ? '&' : '?'
Sep(u) == IF Includes(u, "?") THEN <<"&">> ELSE <<"?">>

\* lines 81 and 96: `${url}${sep}crumb=${encodeURIComponent(crumb)}`
\* (null, which only a broken gate could hand out, prints as 'null')
CrumbUrl(u, crumb) ==
    u \o Sep(u) \o <<"c", "r", "u", "m", "b", "=">>
      \o encodeURIComponent(IF crumb = Null THEN <<"n", "u", "l", "l">> ELSE crumb)

\* lines 84-89 and 97-102: the data request built from a returned pair
DataRequest(u, pair) == [url |-> CrumbUrl(u, pair.crumb), cookie |-> pair.cookies]

\* a handler that forgets status(500)
RespondAlwaysOk(op, o, d, e) ==
    IF op # "yfRequest" THEN NoResp
    ELSE [status |-> 200,
          body |-> IF o = "ok" THEN <<"json", d>> ELSE <<"json error", e>>]

\* lines 122-126 (and 139-143, 156-160, 174-178): what the route handler
\* that awaited yfRequest sends: res.json(data), which answers 200 with the
\* JSON of data, or res.status(500).json({ error: err.message }).  The
\* callers of getCrumb on its own send nothing that depends on yfRequest.
Respond(op, o, d, e) ==
    IF op # "yfRequest" THEN NoResp
    ELSE IF o = "ok" THEN [status |-> 200, body |-> <<"json", d>>]
    ELSE [status |-> 500, body |-> <<"json error", e>>]

\* a call whose promise is never settled
SettleNever(r, o, d, e) == [r EXCEPT !.pc = "hung"]

\* the call settles: its frame is gone, the settled promise stays (with the
\* pair, which is the resolved value of a call of getCrumb on its own), and
\* the handler that awaited it answers its client
Settle(r, o, d, e) ==
    [Idle EXCEPT !.pc = "done", !.op = r.op, !.site = r.site, !.outcome = o,
                 !.data = d, !.err = e, !.got = r.got,
                 !.resp = Respond(r.op, o, d, e),
                 !.creds = IF r.op = "getCrumb" /\ o = "ok" THEN r.creds ELSE NoPair]

\* lines 90 and 103: return res.data
Resolve(r, d) == Settle(r, "ok", d, NoErr)

\* a rejected acquisition answered by starting the acquisition over instead
\* of rejecting the caller
RejectRetrying(r, e) ==
    IF r.pc \in {"r1", "r2"}
    THEN [r EXCEPT !.pc = "r1", !.tokCookie = Null, !.log = Append(@, "landing")]
    ELSE Settle(r, "err", "none", e)

\* the async function rejects with e: a throw (line 105), or a rejected
\* await outside the try block (line 79) or inside the catch block (95, 97)
Reject(r, e) == Settle(r, "err", "none", e)

\* the retry done by calling yfRequest again: its request is a first request
ReturnedRecursive(r, pair) ==
    LET r1 == [r EXCEPT !.creds = pair, !.changed = FALSE, !.log = Append(@, "return")]
    IN  IF r.op = "getCrumb"
        THEN Settle(r1, "ok", "none", NoErr)
        ELSE [r1 EXCEPT !.pc = "req1",
                        !.req = DataRequest(r.url, pair),
                        !.log = Append(@, "data")]

\* getCrumb has returned `pair` to its caller: a call of getCrumb on its own
\* is settled; yfRequest builds and issues its data request (lines 79-84 at
\* the first site, 95-97 at the retry site)
Returned(r, pair) ==
    LET r1 == [r EXCEPT !.creds = pair, !.changed = FALSE, !.log = Append(@, "return")]
    IN  IF r.op = "getCrumb"
        THEN Settle(r1, "ok", "none", NoErr)
        ELSE [r1 EXCEPT !.pc = IF r.site = "first" THEN "req1" ELSE "req2",
                        !.req = DataRequest(r.url, pair),
                        !.log = Append(@, "data")]

\* lines 38-54: getCrumb() up to its first await, with crumb, cookies and
\* crumbTime in the store at time t: the cached pair when the gate passes
\* (and the caller goes on), else the landing-page GET of a new cycle
getCrumb(r, crumb, cookies, crumbTime, t) ==
    LET r0 == [r EXCEPT !.creds = NoPair, !.changed = FALSE, !.acqAt = 0,
                        !.log = Append(@, "getCrumb"),
                        !.gate = CASE Fresh(crumb, crumbTime, t) -> "fresh"
                                   [] crumb = Null -> "absent"
                                   [] crumb = << >> -> "empty"
                                   [] OTHER -> "expired"]
    IN  IF Fresh(crumb, crumbTime, t)
        THEN Returned(r0, [crumb |-> crumb, cookies |-> cookies])
        ELSE [r0 EXCEPT !.pc = "r1", !.log = Append(@, "landing")]

\* lines 56-57: the cookie header written from the landing page's answer
StoreCookies(h) == _cookies' = HarvestCookies(h)

\* the token GET built with the header the store held before line 57 ran
CookieSentStale == _cookies

\* line 63: the Cookie header of the token GET, read from the store in the
\* synchronous run that has just written it (line 57)
CookieSent == _cookies'

\* lines 71-72: the token and its time written from the token endpoint's answer
StoreCrumb(body) == _crumb' = body /\ _crumbTime' = now

\* the catch block going on to getCrumb() without clearing the token
InvalidateNothing == UNCHANGED << _crumb, _cookies, _crumbTime >>

\* invalidation clearing the whole store
InvalidateAll == _crumb' = Null /\ _cookies' = Null /\ _crumbTime' = 0

\* line 94: _crumb = null
Invalidate == _crumb' = Null /\ UNCHANGED << _cookies, _crumbTime >>

\* slot p becomes r; when `wrote`, p has written the token, and the token
\* any other call in flight stored is no longer the stored one
Step(p, r, wrote) ==
    rq' = [q \in Procs |->
             IF q = p THEN r
             ELSE IF wrote /\ rq[q].pc \notin {"idle", "done"}
                  THEN [rq[q] EXCEPT !.acqAt = 0]
                  ELSE rq[q]]

\* slot p is free (no call is running in it) and is the one a new call
\* takes: slots are names for the calls in flight, so when both are free the
\* first is taken
Free(p) ==
    /\ rq[p].pc \in {"idle", "done"}
    /\ p = "p2" => rq["p1"].pc \notin {"idle", "done"}

\* p's acquisition cycle is over: a cookie header it wrote is from now on
\* the header of a finished cycle
CycleOver(p) == cookiesBy' = IF cookiesBy = p THEN "none" ELSE cookiesBy

-----------------------------------------------------------------------------
(* Initial state: lines 31-33, no request in flight *)

Init ==
    /\ _crumb = Null
    /\ _cookies = Null
    /\ _crumbTime = 0
    /\ now = StartTime
    /\ rq = [p \in Procs |-> Idle]
    /\ cookiesBy = "none"
    /\ paired = FALSE
    /\ calls = 0

-----------------------------------------------------------------------------
(* Actions *)

\* a call starts in a free slot and runs to its first await: yfRequest(u)
\* called by a route handler (lines 122, 139, 156, 174), or getCrumb() called
\* on its own: by the /api/page handler (line 189), whose page GET does not
\* touch the store, and when the server starts (lines 235, 239)
Call(p, o, u) ==
    /\ Free(p)
    /\ calls < MaxCalls
    /\ calls' = calls + 1
    /\ Step(p, getCrumb([Idle EXCEPT !.op = o, !.url = u],
                        _crumb, _cookies, _crumbTime, now), FALSE)
    /\ UNCHANGED << shared, now, cookiesBy, paired >>

\* lines 44-69: the landing page answers; the cookie header is stored and the
\* token GET is issued with it
LandingOk(p, h) ==
    /\ rq[p].pc = "r1"
    /\ StoreCookies(h)
    /\ cookiesBy' = p
    /\ paired' = FALSE
    /\ Step(p, [rq[p] EXCEPT !.pc = "r2", !.tokCookie = CookieSent, !.got = <<"cookies", h>>,
                             !.changed = @ \/ _cookies' # _cookies,
                             !.log = Append(@, "token")], FALSE)
    /\ UNCHANGED << _crumb, _crumbTime, now, calls >>

\* line 44: the landing-page GET rejects; getCrumb and its caller reject
LandingFail(p, e) ==
    /\ rq[p].pc = "r1"
    /\ Step(p, Reject([rq[p] EXCEPT !.got = <<"err", e>>], e), FALSE)
    /\ UNCHANGED << shared, now, cookiesBy, paired, calls >>

\* lines 60-74: the token endpoint answers; token and time are stored, the
\* pair is read back from the store and returned, and the caller goes on
TokenOk(p, body) ==
    /\ rq[p].pc = "r2"
    /\ StoreCrumb(body)
    /\ paired' = (cookiesBy = p)
    /\ CycleOver(p)
    /\ Step(p, Returned([rq[p] EXCEPT !.tokCookie = Null, !.got = <<"token", body>>, !.acqAt = now],
                        [crumb |-> _crumb', cookies |-> _cookies]), TRUE)
    /\ UNCHANGED << _cookies, now, calls >>

\* line 60: the token GET rejects; getCrumb and its caller reject
TokenFail(p, e) ==
    /\ rq[p].pc = "r2"
    /\ Step(p, Reject([rq[p] EXCEPT !.got = <<"err", e>>], e), FALSE)
    /\ CycleOver(p)
    /\ UNCHANGED << shared, now, paired, calls >>

\* lines 84-90: the first data request answers 2xx
FirstOk(p, d) ==
    /\ rq[p].pc = "req1"
    /\ Step(p, Resolve([rq[p] EXCEPT !.got = <<"data", d>>], d), FALSE)
    /\ UNCHANGED << shared, now, cookiesBy, paired, calls >>

\* lines 91-105: the first data request rejects with e
FirstFail(p, e) ==
    /\ rq[p].pc = "req1"
    /\ IF IsAuthRejection(e)
       THEN \* lines 94-95: invalidate, then getCrumb() up to its first await
            /\ Invalidate
            /\ paired' = FALSE
            /\ Step(p, getCrumb([rq[p] EXCEPT !.site = "retry", !.req = NoReq, !.got = <<"err", e>>,
                                              !.log = Append(@, "invalidate")],
                                _crumb', _cookies', _crumbTime', now),
                    TRUE)
       ELSE \* line 105: throw err
            /\ Step(p, Reject([rq[p] EXCEPT !.got = <<"err", e>>], e), FALSE)
            /\ UNCHANGED << shared, paired >>
    /\ UNCHANGED << now, cookiesBy, calls >>

\* lines 97-103: the retry answers 2xx
RetryOk(p, d) ==
    /\ rq[p].pc = "req2"
    /\ Step(p, Resolve([rq[p] EXCEPT !.got = <<"data", d>>], d), FALSE)
    /\ UNCHANGED << shared, now, cookiesBy, paired, calls >>

\* a rejected retry clearing the token as a rejected first request does
RetryFailInvalidating(p, e) ==
    /\ rq[p].pc = "req2"
    /\ IF IsAuthRejection(e)
       THEN /\ Invalidate
            /\ paired' = FALSE
            /\ Step(p, Reject([rq[p] EXCEPT !.got = <<"err", e>>], e), TRUE)
       ELSE /\ Step(p, Reject([rq[p] EXCEPT !.got = <<"err", e>>], e), FALSE)
            /\ UNCHANGED << shared, paired >>
    /\ UNCHANGED << now, cookiesBy, calls >>

\* line 97: the retry rejects; the error leaves the catch block
RetryFail(p, e) ==
    /\ rq[p].pc = "req2"
    /\ Step(p, Reject([rq[p] EXCEPT !.got = <<"err", e>>], e), FALSE)
    /\ UNCHANGED << shared, now, cookiesBy, paired, calls >>

\* time passes
Tick ==
    /\ now < StartTime + MaxTicks * TickStep
    /\ now' = now + TickStep
    /\ UNCHANGED << shared, rq, cookiesBy, paired, calls >>

Next ==
    \/ \E p \in Procs, u \in TargetUrls : Call(p, "yfRequest", u)
    \/ \E p \in Procs : Call(p, "getCrumb", << >>)
    \/ \E p \in Procs, h \in SetCookieHeaders : LandingOk(p, h)
    \/ \E p \in Procs, e \in AcquireErrors : LandingFail(p, e)
    \/ \E p \in Procs, b \in TokenBodies : TokenOk(p, b)
    \/ \E p \in Procs, e \in AcquireErrors : TokenFail(p, e)
    \/ \E p \in Procs, d \in DataBodies : FirstOk(p, d)
    \/ \E p \in Procs, e \in AuthErrors \cup OtherErrors : FirstFail(p, e)
    \/ \E p \in Procs, d \in DataBodies : RetryOk(p, d)
    \/ \E p \in Procs, e \in AuthErrors \cup OtherErrors : RetryFail(p, e)
    \/ Tick

Spec == Init /\ [][Next]_vars

\* the network answers the await the call in slot p is suspended at: every
\* axios.get carries a timeout (lines 50, 66, 86, 99), so each one resolves
\* or rejects
Answer(p) ==
    \/ \E h \in SetCookieHeaders : LandingOk(p, h)
    \/ \E e \in AcquireErrors : LandingFail(p, e)
    \/ \E b \in TokenBodies : TokenOk(p, b)
    \/ \E e \in AcquireErrors : TokenFail(p, e)
    \/ \E d \in DataBodies : FirstOk(p, d)
    \/ \E e \in AuthErrors \cup OtherErrors : FirstFail(p, e)
    \/ \E d \in DataBodies : RetryOk(p, d)
    \/ \E e \in AuthErrors \cup OtherErrors : RetryFail(p, e)

\* Spec with every pending network call answered in the end
LiveSpec == Spec /\ \A p \in Procs : WF_vars(Answer(p))

-----------------------------------------------------------------------------
(* Vocabulary of the properties *)

\* the number of times x occurs in the sequence sq
Count(x, sq) == Len(SelectSeq(sq, LAMBDA e : e = x))

\* the network calls of the call's running getCrumb: what follows the last
\* "getCrumb" of its log
RECURSIVE SinceGetCrumb(_)
SinceGetCrumb(sq) ==
    IF sq = << >> \/ sq[Len(sq)] = "getCrumb" THEN << >>
    ELSE Append(SinceGetCrumb(SubSeq(sq, 1, Len(sq) - 1)), sq[Len(sq)])

\* this step starts a call in slot p
CallBy(p) == calls' # calls /\ Free(p)

\* this step is a step of the call in slot p
Acts(p) == CallBy(p) \/ rq'[p].pc # rq[p].pc

\* in this step a getCrumb call of p returns a pair
Returns(p) == Acts(p) /\ rq'[p].creds # NoPair

\* in this step the call of p settles
Settles(p) == Acts(p) /\ rq[p].pc \notin {"idle", "done"} /\ rq'[p].pc = "done"

\* in this step the first data request of p is answered by the error class
FirstRejected(p, class) ==
    rq[p].pc = "req1" /\ Acts(p) /\ \E e \in class : rq'[p].got = <<"err", e>>

StoredPair == [crumb |-> _crumb, cookies |-> _cookies]

\* the step issues no acquisition request for p
NoAcquisition(p) == rq'[p].pc \notin {"r1", "r2"} /\ Count("landing", rq'[p].log) = 0

-----------------------------------------------------------------------------
(* C1 *)

\* C1, as stated: a getCrumb call entered while a token is present (not
\* null) and younger than the TTL issues no network call, returns the stored
\* pair and leaves the store unchanged.
C1_AsStated ==
    [][\A p \in Procs :
        (CallBy(p) /\ _crumb # Null /\ now - _crumbTime < CRUMB_TTL)
        => (NoAcquisition(p) /\ rq'[p].creds = StoredPair /\ UNCHANGED shared)]_vars

\* C1, amended: a getCrumb call entered while a non-empty token is present
\* and younger than the TTL issues no network call, returns the stored pair
\* and leaves the store unchanged.
C1_FreshnessGate ==
    [][\A p \in Procs :
        (CallBy(p) /\ _crumb # Null /\ _crumb # << >> /\ now - _crumbTime < CRUMB_TTL)
        => (NoAcquisition(p) /\ rq'[p].creds = StoredPair /\ UNCHANGED shared)]_vars

\* a yfRequest call got the pair of a token half a TTL old without a network
\* call and has issued its data request
C1_Witness ==
    \E p \in Procs :
        /\ rq[p].gate = "fresh"
        /\ rq[p].log = <<"getCrumb", "return", "data">>
        /\ rq[p].creds = StoredPair
        /\ _crumb # Null
        /\ now - _crumbTime = TickStep

-----------------------------------------------------------------------------
(* C2 *)

\* the token is absent or at least CRUMB_TTL old
Stale(crumb, crumbTime, t) == crumb = Null \/ t - crumbTime >= CRUMB_TTL

\* C2: a getCrumb call entered while the token is absent or expired returns
\* a pair only after its landing-page GET and then its token GET; the only
\* returns without them are those of calls entered with a token that is
\* neither absent nor expired.
C2_ExpiryGate ==
    [][\A p \in Procs :
        Returns(p) =>
            CASE rq[p].pc = "r2" ->
                   SinceGetCrumb(rq[p].log) = <<"landing", "token">>
              [] CallBy(p) -> ~Stale(_crumb, _crumbTime, now)
              [] rq[p].pc = "req1" -> ~Stale(_crumb', _crumbTime', now')
              [] OTHER -> FALSE]_vars

\* a call that found a token exactly CRUMB_TTL old has done both GETs, got
\* their pair (with the new token) and issued its data request
C2_Witness ==
    \E p \in Procs :
        /\ rq[p].gate = "expired"
        /\ rq[p].log = <<"getCrumb", "landing", "token", "return", "data">>
        /\ rq[p].acqAt = StartTime + 2 * TickStep
        /\ rq[p].creds = [crumb |-> <<"a", "/">>, cookies |-> <<"A", "=", "1", ";", " ", "B", "=", "2">>]
        /\ StoredPair = rq[p].creds

-----------------------------------------------------------------------------
(* C3 *)

\* C3, as stated: a yfRequest call whose first data request was rejected
\* with 401 or 403 has, when it settles, invalidated once, reacquired, issued
\* exactly one retry request and settles with that retry's outcome.
C3_AsStated ==
    [][\A p \in Procs :
        (Settles(p) /\ rq[p].site = "retry")
        => /\ rq[p].pc = "req2"
           /\ Count("data", rq[p].log) = 2
           /\ Count("invalidate", rq[p].log) = 1
           /\ \/ rq'[p].outcome = "ok" /\ rq'[p].got = <<"data", rq'[p].data>>
              \/ rq'[p].outcome = "err" /\ rq'[p].got = <<"err", rq'[p].err>>]_vars

\* C3, amended: a rejection of the first data request with 401 or 403
\* invalidates the token and starts a reacquisition; when the reacquisition
\* succeeds exactly one retry request is issued and the call settles with
\* that retry's outcome; when it fails the call fails with the acquisition
\* error and issues no retry.  No call issues more than two data requests
\* or invalidates more than once.
C3_SingleRetry ==
    [][\A p \in Procs : Acts(p) =>
        /\ Count("data", rq'[p].log) <= 2
        /\ Count("invalidate", rq'[p].log) <= 1
        /\ FirstRejected(p, AuthErrors)
           => /\ rq'[p].log = rq[p].log \o <<"invalidate", "getCrumb", "landing">>
              /\ rq'[p].pc = "r1"
              /\ _crumb' = Null
        /\ rq'[p].pc = "req2"
           => /\ rq[p].pc = "r2"
              /\ SubSeq(rq'[p].log, Len(rq'[p].log) - 6, Len(rq'[p].log))
                    = <<"data", "invalidate", "getCrumb", "landing", "token", "return", "data">>
              /\ Count("data", rq'[p].log) = 2
        /\ (Settles(p) /\ rq[p].site = "retry")
           => IF rq[p].pc = "req2"
              THEN \/ rq'[p].outcome = "ok" /\ rq'[p].got = <<"data", rq'[p].data>>
                   \/ rq'[p].outcome = "err" /\ rq'[p].got = <<"err", rq'[p].err>>
              ELSE /\ rq[p].pc \in {"r1", "r2"}
                   /\ Count("data", rq[p].log) = 1
                   /\ rq'[p].outcome = "err" /\ rq'[p].got = <<"err", rq'[p].err>>]_vars

\* a call whose retry was rejected with 401 as well has settled with that
\* error (the acquisition endpoints of the model never answer 401)
C3_Witness ==
    \E p \in Procs :
        /\ rq[p].pc = "done" /\ rq[p].op = "yfRequest" /\ rq[p].site = "retry"
        /\ rq[p].outcome = "err" /\ rq[p].err = "HTTP401"

-----------------------------------------------------------------------------
(* C4 *)

\* C4: when the first data request of a call fails with anything but 401 or
\* 403, the call fails at once with that error: no invalidation, no
\* acquisition request, no second data request, the store unchanged.
C4_NoRetryOnOtherFailure ==
    [][\A p \in Procs :
        FirstRejected(p, OtherErrors)
        => /\ rq'[p].pc = "done"
           /\ rq'[p].outcome = "err"
           /\ rq'[p].got = <<"err", rq'[p].err>>
           /\ rq'[p].site = "first"
           /\ Count("data", rq[p].log) = 1
           /\ UNCHANGED shared]_vars

\* a call has failed with the 500 of its first data request (the model's
\* acquisition endpoints never answer 500) and the token is still stored
C4_Witness ==
    \E p \in Procs :
        /\ rq[p].pc = "done" /\ rq[p].op = "yfRequest" /\ rq[p].site = "first"
        /\ rq[p].outcome = "err" /\ rq[p].err = "HTTP500"
        /\ _crumb # Null /\ _crumb # << >>

-----------------------------------------------------------------------------
(* C5 *)

\* C5, as stated: a getCrumb call that fails in its landing-page GET or in
\* its token GET has changed no field of the store.
C5_FailedAcquisitionChangesNothing ==
    [][\A p \in Procs :
        (Settles(p) /\ rq[p].pc \in {"r1", "r2"} /\ rq'[p].outcome = "err")
        => (rq'[p].got = <<"err", rq'[p].err>> /\ ~rq[p].changed)]_vars

-----------------------------------------------------------------------------
(* C6 *)

\* no acquisition cycle is in flight
Quiescent == \A p \in Procs : rq[p].pc \notin {"r1", "r2"}

\* C6, as stated: whenever a token is stored and no acquisition is under
\* way, the stored token and the stored cookie header were written by the
\* same acquisition cycle.
C6_PairingInvariant == (Quiescent /\ _crumb # Null) => paired

-----------------------------------------------------------------------------
(* C7 *)

\* C7, as stated: calls in flight that found the credential absent or
\* expired share one acquisition cycle: no two cycles are in flight at once.
C7_SingleFlight ==
    \A p, q \in Procs :
        (rq[p].pc \in {"r1", "r2"} /\ rq[q].pc \in {"r1", "r2"}) => p = q

-----------------------------------------------------------------------------
(* C8 *)

\* C8, as stated: when a call settles with the 2xx answer of its retry, it
\* resolves with that answer's body, and the store then holds the token its
\* second acquisition returned (not absent), with _crumbTime the time of
\* that acquisition.
C8_RecoverFromExpiry ==
    [][\A p \in Procs :
        (Settles(p) /\ rq[p].pc = "req2" /\ rq'[p].outcome = "ok")
        => /\ rq'[p].got = <<"data", rq'[p].data>>
           /\ _crumb' # Null
           /\ _crumb' = rq[p].creds.crumb
           /\ _crumbTime' = rq[p].acqAt]_vars

-----------------------------------------------------------------------------
(* C9 *)

\* the characters of 'crumb='
CrumbParam == <<"c", "r", "u", "m", "b", "=">>

\* what encodeURIComponent makes of the token bodies of the model
PercentEncoded(tok) ==
    CASE tok = << >> -> << >>
      [] tok = <<"a">> -> <<"a">>
      [] tok = <<"a", "/">> -> <<"a", "%", "2", "F">>

\* the separator the claim names
ClaimedSep(u) == IF \E i \in 1..Len(u) : u[i] = "?" THEN <<"&">> ELSE <<"?">>

\* C9, as stated: every data request in flight goes to the target url
\* followed by '&crumb=' or '?crumb=' and the token the preceding getCrumb
\* returned, and carries the cookie header that getCrumb returned.
C9_AsStated ==
    \A p \in Procs :
        rq[p].pc \in {"req1", "req2"}
        => /\ rq[p].req.url = rq[p].url \o ClaimedSep(rq[p].url) \o CrumbParam
                                \o rq[p].creds.crumb
           /\ rq[p].req.cookie = rq[p].creds.cookies

\* C9, amended: every data request in flight goes to the target url
\* followed by '&crumb=' or '?crumb=' and the percent-encoded token
\* (encodeURIComponent) the preceding getCrumb returned, and carries the
\* cookie header that getCrumb returned.
C9_TokenAttachment ==
    \A p \in Procs :
        rq[p].pc \in {"req1", "req2"}
        => /\ rq[p].creds.crumb \in TokenBodies
           /\ rq[p].req.url = rq[p].url \o ClaimedSep(rq[p].url) \o CrumbParam
                                \o PercentEncoded(rq[p].creds.crumb)
           /\ rq[p].req.cookie = rq[p].creds.cookies

\* a retry in flight for a url that has a query string, with a token that
\* needs encoding
C9_Witness ==
    \E p \in Procs :
        /\ rq[p].pc = "req2"
        /\ rq[p].url = <<"u", "?", "q">>
        /\ rq[p].creds.crumb = <<"a", "/">>
        /\ rq[p].req.url = <<"u", "?", "q", "&", "c", "r", "u", "m", "b", "=",
                             "a", "%", "2", "F">>

-----------------------------------------------------------------------------
(* C10 *)

\* C10: the invalidation sets the token to null and leaves the cookie header
\* and _crumbTime as they are; the getCrumb call that follows it starts an
\* acquisition, however young the token was.
C10_InvalidateFrame ==
    [][\A p \in Procs :
        FirstRejected(p, AuthErrors)
        => /\ _crumb' = Null
           /\ _cookies' = _cookies
           /\ _crumbTime' = _crumbTime
           /\ rq'[p].pc = "r1"
           /\ SubSeq(rq'[p].log, Len(rq[p].log) + 1, Len(rq'[p].log))
                = <<"invalidate", "getCrumb", "landing">>]_vars

\* a call is reacquiring after an invalidation although the invalidated
\* token was stored at this very time, and the cookie header is still there
C10_Witness ==
    \E p \in Procs :
        /\ rq[p].pc = "r1" /\ rq[p].site = "retry"
        /\ _crumb = Null
        /\ _cookies = <<"A", "=", "1", ";", " ", "B", "=", "2">>
        /\ _crumbTime = now

-----------------------------------------------------------------------------
(* C11 *)

\* C11: provided every pending network call is answered in the end, every
\* call of getCrumb or yfRequest in flight settles (resolves or rejects),
\* whatever the other calls in flight do: no slot holds an unsettled call
\* from some time on for ever.  (A call in flight leaves that condition only
\* by settling, so this is: in flight leads to settled.)
C11_Termination ==
    \A p \in Procs : []<>(rq[p].pc \in {"idle", "done"})

\* two calls that ran at the same time have both settled, one of them after
\* a retry
C11_Witness ==
    /\ calls = 2
    /\ \A p \in Procs : rq[p].pc = "done" /\ rq[p].op = "yfRequest"
    /\ rq["p2"].site = "retry"

-----------------------------------------------------------------------------
(* C12 *)

\* C12: when a yfRequest call made by a data endpoint's handler settles, the
\* handler answers in that same step: 200 with the JSON of the body the
\* last data request received when the call resolved, and 500 with a JSON
\* error object when it rejected, whatever made it reject (an acquisition
\* failure at either site, a failed first request, a failed retry); and no
\* yfRequest call in flight has been answered.
C12_EndpointOutcome ==
    [][\A p \in Procs :
        /\ (Settles(p) /\ rq[p].op = "yfRequest")
           => \/ /\ rq'[p].outcome = "ok"
                 /\ rq[p].pc \in {"req1", "req2"}
                 /\ \E d \in DataBodies :
                      /\ rq'[p].got = <<"data", d>>
                      /\ rq'[p].resp = [status |-> 200, body |-> <<"json", d>>]
              \/ /\ rq'[p].outcome = "err"
                 /\ \E e \in AuthErrors \cup OtherErrors \cup AcquireErrors :
                      /\ rq'[p].got = <<"err", e>>
                      /\ rq'[p].resp = [status |-> 500, body |-> <<"json error", e>>]
        /\ rq'[p].pc \notin {"idle", "done"} => rq'[p].resp.status = 0]_vars

\* one handler has answered 200 with the body of a retry, the other 500 with
\* the timeout that ended its call after a rejection (of the reacquisition
\* or of the retry)
C12_Witness ==
    /\ rq["p1"].pc = "done" /\ rq["p1"].site = "retry"
    /\ rq["p1"].resp = [status |-> 200, body |-> <<"json", "d2">>]
    /\ rq["p2"].pc = "done" /\ rq["p2"].site = "retry"
    /\ rq["p2"].resp = [status |-> 500, body |-> <<"json error", "ETIMEDOUT">>]
    /\ rq["p2"].got = <<"err", "ETIMEDOUT">>

-----------------------------------------------------------------------------
(* C13 *)

\* C13, as stated: when a getCrumb call returns after its token GET, the
\* token of the returned pair is the body that token GET received, and the
\* cookie header of the returned pair is the one harvested from the answer
\* to its own landing-page GET (the header it sent with its token GET).
C13_ReturnedPairOwnCycle ==
    [][\A p \in Procs :
        (rq[p].pc = "r2" /\ Returns(p))
        => /\ rq'[p].got = <<"token", rq'[p].creds.crumb>>
           /\ rq'[p].creds.cookies = rq[p].tokCookie]_vars

-----------------------------------------------------------------------------
(* C14 *)

\* C14: a call whose first request is rejected with 401 or 403 goes, in that
\* step, to the landing-page GET of a new cycle, whatever token the store
\* held (its own, or a fresh one another call stored meanwhile); from the
\* first request it never goes straight to a token GET or to the retry; its
\* token GET is sent, after the landing page has answered, with the cookie
\* header that answer stored; and the retry is issued only by the step that
\* receives the token, with that token.
C14_FullReacquisition ==
    [][\A p \in Procs : Acts(p) =>
        /\ FirstRejected(p, AuthErrors)
           => /\ rq'[p].pc = "r1"
              /\ rq'[p].gate = "absent"
              /\ rq'[p].creds = NoPair
        /\ rq[p].pc = "req1" => rq'[p].pc \in {"done", "r1"}
        /\ (rq'[p].pc = "r2" /\ rq'[p].site = "retry")
           => /\ rq[p].pc = "r1"
              /\ rq'[p].tokCookie = _cookies'
              /\ SinceGetCrumb(rq'[p].log) = <<"landing", "token">>
        /\ rq'[p].pc = "req2"
           => /\ rq[p].pc = "r2"
              /\ rq'[p].got = <<"token", rq'[p].creds.crumb>>
              /\ SinceGetCrumb(rq'[p].log) = <<"landing", "token", "return", "data">>]_vars

\* a call found the stored token unusable while the call that had stored it
\* was waiting for its first request, and stored a fresh token 'a'; the first
\* call, then rejected, has cleared that token and is at the landing-page GET
\* of a new cycle
C14_Witness ==
    \E p, q \in Procs :
        /\ p # q /\ calls = 2
        /\ rq[p].pc = "r1" /\ rq[p].site = "retry"
        /\ rq[q].pc = "req1" /\ rq[q].gate \in {"expired", "empty"}
        /\ rq[q].creds.crumb = <<"a">>
        /\ rq[q].acqAt = 0
        /\ _crumb = Null /\ now - _crumbTime < CRUMB_TTL

-----------------------------------------------------------------------------
(* C15 *)

\* the phase of the call in slot r; CredentialsReady and CredentialsRefreshed
\* are passed inside the step in which getCrumb returns and the data request
\* is issued
Phase(r) ==
    CASE r.pc = "idle" -> "None"
      [] r.pc = "done" -> IF r.outcome = "ok" THEN "Success" ELSE "Failed"
      [] r.pc \in {"r1", "r2"} -> IF r.site = "first" THEN "Init" ELSE "AuthRejected"
      [] r.pc = "req1" -> "RequestSent"
      [] r.pc = "req2" -> "RequestRetried"

PhaseEdges ==
    { <<"Init", "Init">>, <<"Init", "RequestSent">>, <<"Init", "Failed">>,
      <<"RequestSent", "Success">>, <<"RequestSent", "AuthRejected">>,
      <<"RequestSent", "Failed">>,
      <<"AuthRejected", "AuthRejected">>, <<"AuthRejected", "RequestRetried">>,
      <<"AuthRejected", "Failed">>,
      <<"RequestRetried", "Success">>, <<"RequestRetried", "Failed">> }

\* C15: every step of a yfRequest call is an edge of the phase diagram (Failed
\* being reachable from every phase that is not terminal); a data request is
\* issued only in a step in which getCrumb returns a pair, and carries it;
\* AuthRejected is entered only from RequestSent, on 401 or 403; the retry is
\* issued only when the getCrumb called after the rejection returns; and a
\* settled call does nothing more: its slot changes only when a new call takes
\* it, and the store changes only in a step of a call that is not settled.
C15_PhaseConformance ==
    [][/\ \A p \in Procs :
            /\ (CallBy(p) /\ rq'[p].op = "yfRequest")
               => Phase(rq'[p]) \in {"Init", "RequestSent"}
            /\ (~CallBy(p) /\ Acts(p) /\ rq[p].op = "yfRequest")
               => /\ << Phase(rq[p]), Phase(rq'[p]) >> \in PhaseEdges
                  /\ rq'[p].op = "yfRequest"
            /\ (Acts(p) /\ rq'[p].pc \in {"req1", "req2"})
               => /\ Returns(p)
                  /\ ~CallBy(p) => rq[p].creds = NoPair
                  /\ rq'[p].req = DataRequest(rq'[p].url, rq'[p].creds)
                  /\ Count("data", rq[p].log) = Count("return", rq[p].log)
            /\ (Acts(p) /\ Phase(rq'[p]) = "AuthRejected" /\ Phase(rq[p]) # "AuthRejected")
               => FirstRejected(p, AuthErrors)
            /\ (Acts(p) /\ rq'[p].pc = "req2")
               => /\ Phase(rq[p]) = "AuthRejected"
                  /\ Count("return", rq'[p].log) = 2
                  /\ Count("invalidate", rq'[p].log) = 1
            /\ (rq[p].pc \in {"idle", "done"} /\ rq'[p] # rq[p]) => CallBy(p)
       /\ shared' # shared
          => \E p \in Procs : rq[p].pc \in {"r1", "r2", "req1"} /\ Acts(p)]_vars

\* two calls have run to their ends: one through rejection, reacquisition and
\* retry to Success, the other from its first request to Failed
C15_Witness ==
    /\ calls = 2
    /\ rq["p1"].pc = "done" /\ rq["p1"].op = "yfRequest"
    /\ rq["p1"].site = "retry" /\ Phase(rq["p1"]) = "Success"
    /\ rq["p2"].pc = "done" /\ rq["p2"].op = "yfRequest"
    /\ rq["p2"].site = "first" /\ rq["p2"].got = <<"err", "HTTP500">>
    /\ Phase(rq["p2"]) = "Failed"

-----------------------------------------------------------------------------
(* C16 *)

\* C16: when the landing-page GET or the token GET of a yfRequest call fails,
\* that step settles the call as failed with that very error and no answer
\* body; at the first site the call has issued no data request, after a
\* rejection it has issued the first request only and no retry; and the
\* failed getCrumb was the call's only one at that site: one at the first
\* site, two after a rejection, each with at most one landing and one token
\* GET.
C16_AcquisitionFailure ==
    [][\A p \in Procs :
        (/\ Acts(p) /\ rq[p].pc \in {"r1", "r2"} /\ rq[p].op = "yfRequest"
         /\ \E e \in AcquireErrors : rq'[p].got = <<"err", e>>)
        => /\ rq'[p].pc = "done"
           /\ rq'[p].outcome = "err"
           /\ rq'[p].got = <<"err", rq'[p].err>>
           /\ rq'[p].data = "none"
           /\ rq'[p].resp = [status |-> 500, body |-> <<"json error", rq'[p].err>>]
           /\ rq'[p].req = NoReq
           /\ Count("data", rq[p].log) = (IF rq[p].site = "first" THEN 0 ELSE 1)
           /\ Count("getCrumb", rq[p].log) = (IF rq[p].site = "first" THEN 1 ELSE 2)
           /\ Count("landing", rq[p].log) <= Count("getCrumb", rq[p].log)
           /\ Count("token", rq[p].log) <= Count("getCrumb", rq[p].log)
           /\ Len(SinceGetCrumb(rq[p].log)) = (IF rq[p].pc = "r1" THEN 1 ELSE 2)]_vars

\* one call failed in its first acquisition, with a 403, the other in the
\* acquisition that followed a rejection, with a timeout
C16_Witness ==
    /\ calls = 2
    /\ rq["p1"].pc = "done" /\ rq["p1"].op = "yfRequest" /\ rq["p1"].site = "first"
    /\ rq["p1"].got = <<"err", "HTTP403">> /\ rq["p1"].resp.status = 500
    /\ rq["p2"].pc = "done" /\ rq["p2"].op = "yfRequest" /\ rq["p2"].site = "retry"
    /\ rq["p2"].got = <<"err", "ETIMEDOUT">> /\ rq["p2"].resp.status = 500
    /\ _crumb = Null

-----------------------------------------------------------------------------
(* C17 *)

\* the step is one the claim's hypotheses allow: no acquisition request of p
\* fails in it, and a data request of p fails in it only by a 401 or 403
\* given to a token p took from the store (one p acquired itself is accepted)
Cooperative(p) ==
    \A e \in AcquireErrors \cup AuthErrors \cup OtherErrors :
        rq'[p].got = <<"err", e>>
        => /\ rq[p].pc \in {"req1", "req2"}
           /\ e \in AuthErrors
           /\ rq[p].gate = "fresh"

\* how far the call has come
Rank(r) ==
    CASE r.pc = "r1" -> IF r.site = "first" THEN 1 ELSE 4
      [] r.pc = "r2" -> IF r.site = "first" THEN 2 ELSE 5
      [] r.pc = "req1" -> 3
      [] r.pc = "req2" -> 6
      [] r.pc = "done" -> 7
      [] OTHER -> 0

\* C17: whatever the store holds when a yfRequest call starts, every step
\* of the call in which the endpoints cooperate moves it forward on the path
\* landing, token, first request, (invalidation, landing, token, retry,)
\* settled; a step that settles it then settles it with the data of a 2xx
\* answer; it invalidates at most once; and the retry never carries a token
\* taken from the store, so that a rejected retry is never a cooperating step.
C17_Recovery ==
    [][\A p \in Procs :
        /\ (CallBy(p) /\ rq'[p].op = "yfRequest") => Rank(rq'[p]) \in {1, 3}
        /\ (Acts(p) /\ ~CallBy(p) /\ rq[p].op = "yfRequest" /\ Cooperative(p))
           => /\ Rank(rq'[p]) > Rank(rq[p])
              /\ rq'[p].pc = "done"
                 => /\ rq'[p].outcome = "ok"
                    /\ rq'[p].got = <<"data", rq'[p].data>>
                    /\ rq'[p].resp.status = 200
              /\ Count("invalidate", rq'[p].log) <= 1
              /\ Count("data", rq'[p].log) <= 2
              /\ rq'[p].pc = "req2" => rq'[p].gate # "fresh"]_vars

\* a second call, started when the first had settled, took the stored token
\* without a network call, was rejected with it, and after a complete new
\* cycle has issued its retry with the token it acquired
C17_Witness ==
    /\ calls = 2
    /\ rq["p2"].pc = "idle"
    /\ rq["p1"].pc = "req2" /\ rq["p1"].op = "yfRequest"
    /\ rq["p1"].log = << "getCrumb", "return", "data", "invalidate",
                         "getCrumb", "landing", "token", "return", "data" >>
    /\ rq["p1"].creds.crumb = <<"a", "/">>
    /\ _crumb = <<"a", "/">>

-----------------------------------------------------------------------------
(* C18 *)

\* in this step the retry of p is answered by a failure
RetryFailed(p) ==
    rq[p].pc = "req2" /\ Acts(p) /\ rq'[p].got = <<"err", rq'[p].err>>

\* a call of getCrumb made in the state the step leads to: settled at once
\* when the gate passes, at the landing-page GET when it does not
GateAfter ==
    getCrumb([Idle EXCEPT !.op = "getCrumb"], _crumb', _cookies', _crumbTime', now')

\* C18, as stated: when the retry of a call fails, the token the call
\* acquired for it is the stored token, with its time of acquisition, and a
\* call of getCrumb made then, less than the TTL after that time, returns
\* that token without a network call.
C18_AsStated ==
    [][\A p \in Procs :
        RetryFailed(p)
        => /\ _crumb' = rq[p].creds.crumb
           /\ _crumbTime' = rq[p].acqAt
           /\ now - rq[p].acqAt < CRUMB_TTL
              => /\ GateAfter.pc = "done"
                 /\ GateAfter.creds.crumb = rq[p].creds.crumb]_vars

\* C18: a failed retry, whatever its error, writes nothing to the store, and
\* settles the call as failed. If no call has written the token since the
\* failed call stored the one it acquired for the retry, that token and its
\* time are still the stored ones, and a call of getCrumb made then returns
\* it with the stored cookie header and no network call, provided the token
\* is not the empty string and is less than the TTL old. A stored token
\* changes only in a step that invalidates after a 401 or 403 on a first
\* request, or in which a call that had found the gate closed stores the
\* token it acquired.
C18_NoInvalidationAfterRetry ==
    [][/\ \A p \in Procs :
            RetryFailed(p)
            => /\ UNCHANGED shared
               /\ rq'[p].pc = "done" /\ rq'[p].outcome = "err"
               /\ rq[p].acqAt # 0
                  => /\ _crumb' = rq[p].creds.crumb
                     /\ _crumbTime' = rq[p].acqAt
                     /\ (Truthy(_crumb') /\ now - rq[p].acqAt < CRUMB_TTL)
                        => /\ GateAfter.pc = "done"
                           /\ GateAfter.outcome = "ok"
                           /\ GateAfter.creds = [crumb |-> rq[p].creds.crumb,
                                                 cookies |-> _cookies']
       /\ _crumb' # _crumb
          => \E q \in Procs :
                /\ Acts(q)
                /\ \/ FirstRejected(q, AuthErrors) /\ _crumb' = Null
                   \/ /\ rq[q].pc = "r2" /\ rq[q].gate \in {"absent", "empty", "expired"}
                      /\ rq'[q].got = <<"token", _crumb'>>]_vars

\* the retry of the only call was rejected with 401: the token 'a' acquired
\* for it is still stored, less than the TTL old
C18_Witness ==
    /\ calls = 1
    /\ rq["p1"].pc = "done" /\ rq["p1"].op = "yfRequest" /\ rq["p1"].site = "retry"
    /\ rq["p1"].got = <<"err", "HTTP401">>
    /\ rq["p2"].pc = "idle"
    /\ _crumb = <<"a">>
    /\ now - _crumbTime < CRUMB_TTL

-----------------------------------------------------------------------------
(* C19 *)

\* the cookie header expected from each landing-page answer of the model
ExpectedHarvest(h) ==
    IF h = Null THEN << >> ELSE <<"A", "=", "1", ";", " ", "B", "=", "2">>

\* C19: while the token GET of a call is in flight, the Cookie header it was
\* sent with is the header harvested from the landing-page answer of that
\* same call, whatever other calls have written to the store since.
C19_OwnCookiesAtTokenEndpoint ==
    \A p \in Procs :
        rq[p].pc = "r2"
        => /\ rq[p].got[1] = "cookies"
           /\ rq[p].tokCookie = ExpectedHarvest(rq[p].got[2])

\* two token GETs are in flight: the first was sent with the empty header of
\* its own landing-page answer, and the store now holds the header the
\* second call harvested and sent
C19_Witness ==
    /\ rq["p1"].pc = "r2" /\ rq["p1"].got = <<"cookies", Null>>
    /\ rq["p1"].tokCookie = << >>
    /\ rq["p2"].pc = "r2" /\ rq["p2"].tokCookie = <<"A", "=", "1", ";", " ", "B", "=", "2">>
    /\ _cookies = rq["p2"].tokCookie
    /\ cookiesBy = "p2"

====
